---- MODULE Spec2Model ----
(***************************************************************************)
(* Model of the <midi-player> element (src/src/player.ts, PlayerElement)   *)
(* and of the backend wrapper it drives (SpessaSynthPlayer).               *)
(*                                                                         *)
(* The JavaScript is single threaded: every action below is one callback   *)
(* turn (a method call from the page, a DOM event listener, a timer, or    *)
(* the continuation of initPlayerNow after one of its awaits).  A method   *)
(* is written as an operator from a program state `st` to the program      *)
(* state it leaves, so that nested calls (start -> stop of another widget  *)
(* -> handleStop -> ...) are part of the one action that makes them.       *)
(***************************************************************************)
EXTENDS Integers, Sequences, FiniteSets

VARIABLES el, inst, run, playingPlayer, context, emitted, hist,
          midi, noteTimes

vars == <<el, inst, run, playingPlayer, context, emitted, hist,
          midi, noteTimes>>

----------------------------------------------------------------------------
(* Bounds *)

\* number of <midi-player> elements on the page
NumWidgets == 2
\* number of initPlayerNow runs one widget makes in a behaviour
MaxLoads == 2
\* longest document, in seconds
MaxTime == 1

----------------------------------------------------------------------------
(* Values *)

NULL == "null"

Widgets == 1 .. NumWidgets
RunIds == 1 .. MaxLoads
\* run records: 0 is the record of a run that ends in the turn it starts in
RunSlots == 0 .. MaxLoads
Times == 0 .. MaxTime

\* MIDI file URLs the page may put in the src attribute
Srcs == {"a.mid", "b.mid"}

\* values of the sound-font attribute: absent, "" (use the default), a URL
DEFAULT_SOUNDFONT == "GeneralUserGS.sf3"
SoundFonts == {NULL, ""}

\* a MIDI object: `id` is its JavaScript identity (0: made by the page,
\* k > 0: made by `new MIDI` in the k-th run), `content` what it was
\* decoded from
PageDoc == [id |-> 0, content |-> "page.seq"]
\* no document (null)
NoDoc == [id |-> 0 - 1, content |-> NULL]
\* no widget (playingPlayer = null), no backend instance (player undefined)
None == 0
\* the document of the backend instance whose note times are extracted,
\* while none is loaded
NoMidi == [timeDivision |-> 1, tracks |-> <<>>]

Duration(content) == IF content = "a.mid" THEN 1 ELSE MaxTime

Min(a, b) == IF a < b THEN a ELSE b

\* a Sequencer; `defined` is false while SpessaSynthPlayer.seq is undefined
NoSeq == [defined |-> FALSE, paused |-> TRUE, currentTime |-> 0, doc |-> NoDoc]
NoInst == [buf |-> NULL, synth |-> FALSE, seq |-> NoSeq]
NoRun == [pc |-> "none", initNs |-> FALSE, url |-> NULL, ns |-> NoDoc,
          worklet |-> FALSE]

\* the element as the constructor leaves it
NewElement ==
    [domInitialized |-> FALSE, src |-> NULL, soundFont |-> NULL,
     loop |-> FALSE, ns |-> NoDoc, seeking |-> FALSE, playing |-> FALSE,
     initTimeout |-> FALSE, timers |-> 0, needInitNs |-> FALSE,
     seekValue |-> 0, seekMax |-> 0, timeLabel |-> 0, soundfontBin |-> NULL,
     player |-> None, disabled |-> TRUE, classes |-> {"stopped", "frozen"},
     title |-> NULL, nLoads |-> 0]

World ==
    [el |-> el, inst |-> inst, run |-> run, pp |-> playingPlayer,
     ctx |-> context, ev |-> <<>>, audioOk |-> TRUE]

----------------------------------------------------------------------------
(* SpessaSynthPlayer and the Sequencer it wraps *)

\* the backend instance the widget's `player` field refers to
Player(st, w) == st.inst[w][st.el[w].player]

\* `this.player.isPlaying` throws a TypeError: the getter reads
\* this.seq.paused and seq is undefined until loadMIDI has run
IsPlayingThrows(st, w) ==
    /\ st.el[w].player # None
    /\ ~Player(st, w).seq.defined

\* `this.player && this.player.isPlaying`
HasPlayingPlayer(st, w) ==
    /\ st.el[w].player # None
    /\ Player(st, w).seq.defined
    /\ ~Player(st, w).seq.paused

SeqPlay(st, w) == [st EXCEPT !.inst[w][st.el[w].player].seq.paused = FALSE]

SeqPause(st, w) == [st EXCEPT !.inst[w][st.el[w].player].seq.paused = TRUE]

SeqSeek(st, w, t) ==
    [st EXCEPT !.inst[w][st.el[w].player].seq.currentTime = t]

\* SpessaSynthPlayer.loadMIDI on instance k
LoadMIDI(st, w, k, doc) ==
    IF ~st.inst[w][k].seq.defined
    THEN [st EXCEPT !.inst[w][k].seq =
                        [defined |-> TRUE, paused |-> TRUE, currentTime |-> 0,
                         doc |-> doc]]
    ELSE [st EXCEPT !.inst[w][k].seq.doc = doc,
                    !.inst[w][k].seq.currentTime = 0]

----------------------------------------------------------------------------
(* PlayerElement: helpers *)

Emit(st, e) == [st EXCEPT !.ev = Append(@, e)]

Ev(w, type) == [w |-> w, type |-> type, finished |-> FALSE, doc |-> NoDoc]

\* set currentTime(value), for a call that does not throw
SetCurrentTime(st, w, value) ==
    LET shown == Min(value, st.el[w].seekMax)
        s1 == [st EXCEPT !.el[w].seekValue = shown,
                         !.el[w].timeLabel = shown]
    IN  IF HasPlayingPlayer(s1, w) THEN SeqSeek(s1, w, value) ELSE s1

SetLoading(st, w) ==
    [st EXCEPT !.el[w].disabled = TRUE,
               !.el[w].classes = (@ \ {"error"}) \cup {"loading", "frozen"},
               !.el[w].title = NULL]

SetLoaded(st, w) ==
    [st EXCEPT !.el[w].disabled = FALSE,
               !.el[w].classes = @ \ {"loading", "frozen"}]

SetError(st, w, error) ==
    [st EXCEPT !.el[w].disabled = TRUE,
               !.el[w].classes =
                   (@ \ {"loading", "stopped", "playing"})
                       \cup {"error", "frozen"},
               !.el[w].title = error]

----------------------------------------------------------------------------
(* PlayerElement: start, stop, handleStop *)

RECURSIVE StartImpl(_, _, _)

\* mutation of HandleStopTail: `stop` is dispatched whether or not the
\* widget was playing
HandleStopTailAlways(st, w, finished) ==
    LET s1 == [st EXCEPT !.el[w].classes = (@ \ {"playing"}) \cup {"stopped"}]
    IN  Emit([s1 EXCEPT !.el[w].playing = FALSE],
             [Ev(w, "stop") EXCEPT !.finished = finished])

\* the end of handleStop: mark stopped, and report a stop if playing
HandleStopTail(st, w, finished) ==
    LET s1 == [st EXCEPT !.el[w].classes = (@ \ {"playing"}) \cup {"stopped"}]
    IN  IF s1.el[w].playing
        THEN Emit([s1 EXCEPT !.el[w].playing = FALSE],
                  [Ev(w, "stop") EXCEPT !.finished = finished])
        ELSE s1

HandleStop(st, w, finished) ==
    IF finished
    THEN IF st.el[w].loop
         THEN StartImpl(SetCurrentTime(st, w, 0), w, TRUE)
         ELSE HandleStopTail(SetCurrentTime(st, w, st.el[w].seekMax), w, TRUE)
    ELSE HandleStopTail(st, w, FALSE)

\* stop() throws before it changes anything
StopThrows(st, w) == IsPlayingThrows(st, w)

Stop(st, w) ==
    HandleStop(IF HasPlayingPlayer(st, w) THEN SeqPause(st, w) ELSE st,
               w, FALSE)

\* mutation of StartImpl: the widget that holds playingPlayer is not stopped
StartImplAlone(st, w, looped) ==
    IF st.el[w].player = None \/ IsPlayingThrows(st, w)
    THEN st
    ELSE IF Player(st, w).seq.paused
    THEN LET s2 == [st EXCEPT !.pp = w, !.el[w].playing = TRUE]
             s3 == SetCurrentTime(s2, w, 0)
             s4 == [s3 EXCEPT !.el[w].classes =
                                 (@ \ {"stopped"}) \cup {"playing"}]
             s5 == SeqPlay(s4, w)
             s6 == Emit(s5, Ev(w, IF looped THEN "loop" ELSE "start"))
         IN  HandleStop(s6, w, TRUE)
    ELSE st

\* _start(looped): the async body has no await, it runs in the caller's turn
StartImpl(st, w, looped) ==
    IF st.el[w].player = None \/ IsPlayingThrows(st, w)
    THEN st
    ELSE IF Player(st, w).seq.paused
    THEN LET other == st.pp
             mustStop == /\ other # None
                         /\ st.el[other].playing
                         /\ ~(other = w /\ looped)
         IN  IF mustStop /\ StopThrows(st, other)
             THEN st
             ELSE LET s1 == IF mustStop THEN Stop(st, other) ELSE st
                      s2 == [s1 EXCEPT !.pp = w, !.el[w].playing = TRUE]
                      s3 == SetCurrentTime(s2, w, 0)
                      s4 == [s3 EXCEPT !.el[w].classes =
                                          (@ \ {"stopped"}) \cup {"playing"}]
                      s5 == SeqPlay(s4, w)
                      s6 == Emit(s5, Ev(w, IF looped THEN "loop" ELSE "start"))
                  IN  HandleStop(s6, w, TRUE)
    ELSE st

\* mutation of NoteCallback: the position is shown during a seek drag too
NoteCallbackWhileSeeking(st, w) ==
    IF ~st.el[w].playing
    THEN st
    ELSE LET s1 == Emit(st, Ev(w, "note"))
         IN  IF st.el[w].player = None \/ IsPlayingThrows(st, w)
             THEN s1
             ELSE [s1 EXCEPT
                      !.el[w].seekValue =
                          Min(Player(st, w).seq.currentTime, st.el[w].seekMax),
                      !.el[w].timeLabel = Player(st, w).seq.currentTime]

\* noteCallback(note); reading this.player.currentTime throws while the
\* backend instance has no sequencer
NoteCallback(st, w) ==
    IF ~st.el[w].playing
    THEN st
    ELSE LET s1 == Emit(st, Ev(w, "note"))
         IN  IF st.el[w].seeking
             THEN s1
             ELSE IF st.el[w].player = None \/ IsPlayingThrows(st, w)
             THEN s1
             ELSE [s1 EXCEPT
                      !.el[w].seekValue =
                          Min(Player(st, w).seq.currentTime, st.el[w].seekMax),
                      !.el[w].timeLabel = Player(st, w).seq.currentTime]

----------------------------------------------------------------------------
(* PlayerElement: initPlayer and initPlayerNow *)

\* most timers one widget may have pending
MaxTimers == 2

\* initPlayer(): the default initNs = true is the only value it is called
\* with; stop() may throw, which leaves the method after its first line
InitPlayer(st, w) ==
    LET s1 == [st EXCEPT !.el[w].needInitNs = TRUE]
    IN  IF s1.el[w].initTimeout \/ StopThrows(s1, w)
        THEN s1
        ELSE [SetLoading(Stop(s1, w), w) EXCEPT
                  !.el[w].initTimeout = TRUE, !.el[w].timers = @ + 1]

\* initPlayer() would set a timer
InitPlayerSchedules(st, w) ==
    ~st.el[w].initTimeout /\ ~StopThrows(st, w)

EndRun(st, w, k) == [st EXCEPT !.run[w][k] = NoRun]

\* the catch block of initPlayerNow
Fail(st, w, k, error) == EndRun(SetError(st, w, error), w, k)

\* initPlayerNow from `this.player.loadMIDI(this.ns)` to its end
AfterInit(st, w, k) ==
    LET s1 == LoadMIDI(st, w, st.el[w].player, st.el[w].ns)
    IN  IF s1.el[w].ns # s1.run[w][k].ns
        THEN EndRun(s1, w, k)
        ELSE EndRun(Emit(SetLoaded(s1, w),
                         [Ev(w, "load") EXCEPT !.doc = s1.el[w].ns]),
                    w, k)

\* `this.player = new SpessaSynthPlayer(this.soundfontBin)` and the call of
\* its initPlayer() up to the await.  `fold`: the caller is a continuation
\* or a timer, so that an await on an already resolved promise resumes
\* before any other callback turn
Construct(st, w, k, fold) ==
    LET s1 == [st EXCEPT !.inst[w][k] =
                             [NoInst EXCEPT !.buf = st.el[w].soundfontBin],
                         !.el[w].player = k,
                         !.run[w][k].pc = "init"]
    IN  IF s1.ctx = "undefined"
        THEN IF s1.audioOk
             THEN [s1 EXCEPT !.ctx = "loading", !.run[w][k].worklet = TRUE]
             ELSE Fail(s1, w, k, "InitError")
        ELSE LET s2 == [s1 EXCEPT !.inst[w][k].synth = TRUE]
             IN  IF fold THEN AfterInit(s2, w, k) ELSE s2

\* the range input keeps its value within [0, max]
SetSeekMax(st, w, max) ==
    [st EXCEPT !.el[w].seekMax = max,
               !.el[w].seekValue = Min(@, max)]

\* initPlayerNow from `this.currentTime = 0` to the construction of the
\* backend instance
AfterDoc(st, w, k, initNs, fold) ==
    IF initNs /\ IsPlayingThrows(st, w)
    THEN Fail([st EXCEPT !.el[w].seekValue = 0, !.el[w].timeLabel = 0],
              w, k, "TypeError")
    ELSE LET s1 == IF initNs THEN SetCurrentTime(st, w, 0) ELSE st
             s2 == IF initNs /\ s1.el[w].ns = NoDoc
                   THEN SetError(s1, w, "No content loaded")
                   ELSE s1
             ns == s2.el[w].ns
         IN  IF ns = NoDoc
             THEN EndRun(SetSeekMax(s2, w, 0), w, k)
             ELSE LET s3 == [SetSeekMax(s2, w, Duration(ns.content))
                                EXCEPT !.run[w][k].ns = ns]
                      sf == s3.el[w].soundFont
                  IN  IF sf = NULL
                      THEN EndRun(s3, w, k)
                      ELSE IF s3.el[w].soundfontBin = NULL
                      THEN [s3 EXCEPT
                               !.run[w][k].pc = "fetchSf",
                               !.run[w][k].url =
                                   IF sf = "" THEN DEFAULT_SOUNDFONT ELSE sf]
                      ELSE Construct(s3, w, k, fold)

\* a run of initPlayerNow(initNs) needs a run id: it suspends or it
\* constructs a backend instance
NeedsId(st, w, initNs) ==
    /\ st.el[w].domInitialized
    /\ \/ initNs /\ st.el[w].src # NULL
       \/ /\ ~(initNs /\ IsPlayingThrows(st, w))
          /\ st.el[w].ns # NoDoc
          /\ st.el[w].soundFont # NULL

\* initPlayerNow(initNs) up to its first await.  A run that ends in this
\* turn without constructing anything uses the scratch record 0
InitPlayerNow(st, w, initNs, fold) ==
    LET k == IF NeedsId(st, w, initNs) THEN st.el[w].nLoads + 1 ELSE 0
        s1 == [st EXCEPT !.el[w].initTimeout = FALSE,
                         !.el[w].needInitNs = FALSE]
        s2 == [s1 EXCEPT !.el[w].nLoads = IF k = 0 THEN @ ELSE k,
                         !.run[w][k] = [NoRun EXCEPT !.initNs = initNs]]
    IN  IF ~s1.el[w].domInitialized
        THEN s1
        ELSE IF initNs /\ s2.el[w].src # NULL
        THEN [s2 EXCEPT !.run[w][k].pc = "fetchMidi",
                        !.run[w][k].url = s2.el[w].src]
        ELSE AfterDoc(s2, w, k, initNs, fold)

CanBegin(st, w, initNs) ==
    NeedsId(st, w, initNs) => st.el[w].nLoads < MaxLoads

----------------------------------------------------------------------------
(* History: what the claims need to remember of the past *)

\* loadLog: the content of the documents published at the `load` events
\*     dispatched since the last request for a source or note sequence
\* requested: the content last requested (a src URL or the page's sequence)
\* rapid: that request was a src, made while a load for the src requested
\*     before it was in flight
\*     (these three are kept only where `log` is set: under SpecReconf)
\* dirty: reload() or connectedCallback ran while a timer was pending
\* dragFromPlaying: the transport was playing when the seek drag began
\* call: the last turn was a call of the currentTime setter or of
\*     noteCallback on this widget (`op`), with this argument (`arg`)
\* started: the widget has dispatched `start` or `loop` since its last `stop`
NoCall == [op |-> NULL, arg |-> 0]

NewHist ==
    [log |-> FALSE, loadLog |-> <<>>, requested |-> NULL, rapid |-> FALSE,
     dirty |-> FALSE, dragFromPlaying |-> FALSE, call |-> NoCall,
     started |-> FALSE]

InFlight(w) == {k \in RunIds : run[w][k].pc # "none"}

\* `started` of widget v after a turn that dispatched `events`
Started(v, events) ==
    LET mine == SelectSeq(events,
                          LAMBDA e : e.w = v
                                     /\ e.type \in {"start", "loop", "stop"})
    IN  IF mine = <<>> THEN hist[v].started
        ELSE mine[Len(mine)].type # "stop"

\* the hist of widget w after an action `op` (with argument `arg`) that
\* leaves program state s
Track(op, w, s, arg) ==
    LET h == hist[w]
        request == h.log /\ op \in {"SetSrc", "SetNoteSequence"}
        loads == SelectSeq(s.ev, LAMBDA e : e.w = w /\ e.type = "load")
        log == IF ~h.log THEN <<>>
               ELSE (IF request THEN <<>> ELSE h.loadLog)
                        \o [i \in 1 .. Len(loads) |-> loads[i].doc.content]
    IN  [log |-> h.log,
         loadLog |-> log,
         requested |->
             IF ~request THEN h.requested
             ELSE IF s.el[w].src # NULL THEN s.el[w].src
             ELSE s.el[w].ns.content,
         rapid |->
             IF request
             THEN op = "SetSrc" /\ h.requested \in Srcs /\ InFlight(w) # {}
             ELSE h.rapid,
         dirty |->
             IF s.el[w].timers = 0 THEN FALSE
             ELSE IF op \in {"Reload", "Connect"} /\ el[w].timers > 0 THEN TRUE
             ELSE h.dirty,
         dragFromPlaying |->
             IF op = "SeekInput" /\ ~el[w].seeking
             THEN HasPlayingPlayer(World, w)
             ELSE IF op = "SeekChange" THEN FALSE
             ELSE h.dragFromPlaying,
         call |->
             IF op \in {"CurrentTime", "NoteCallback"}
             THEN [op |-> op, arg |-> arg]
             ELSE NoCall,
         started |-> Started(w, s.ev)]

DoWith(op, w, s, arg) ==
    /\ el' = s.el
    /\ inst' = s.inst
    /\ run' = s.run
    /\ playingPlayer' = s.pp
    /\ context' = s.ctx
    /\ emitted' = s.ev
    /\ hist' = [v \in Widgets |->
                   IF v = w THEN Track(op, w, s, arg)
                   ELSE [hist[v] EXCEPT !.call = NoCall,
                                        !.started = Started(v, s.ev)]]
    /\ UNCHANGED <<midi, noteTimes>>

Do(op, w, s) == DoWith(op, w, s, 0)

----------------------------------------------------------------------------
(* Actions: calls from the page *)

\* `ok`, in the actions that may construct a backend instance:
\* `new AudioContext()` succeeds (or throws); it runs only while the static
\* context is undefined
AudioOutcomes == IF context = "undefined" THEN BOOLEAN ELSE {TRUE}

\* connectedCallback, the first time
Connect(w, ok) ==
    /\ ~el[w].domInitialized
    /\ ok \in AudioOutcomes
    /\ LET s0 == [World EXCEPT !.audioOk = ok, !.el[w].domInitialized = TRUE]
       IN  /\ CanBegin(s0, w, TRUE)
           /\ Do("Connect", w, InitPlayerNow(s0, w, TRUE, FALSE))

\* reload()
Reload(w, ok) ==
    /\ ok \in AudioOutcomes
    /\ LET s0 == [World EXCEPT !.audioOk = ok]
       IN  /\ CanBegin(s0, w, TRUE)
           /\ Do("Reload", w, InitPlayerNow(s0, w, TRUE, FALSE))

\* attributeChangedCallback for src or sound-font; an exception in a custom
\* element reaction is reported, the caller goes on
AttributeChanged(st, w) == InitPlayer(st, w)

\* setAttribute / removeAttribute: the callback runs on every setAttribute,
\* and on a removeAttribute of an attribute that is present
SetAttr(st, w, name, value) ==
    LET s1 == IF name = "src"
              THEN [st EXCEPT !.el[w].src = value]
              ELSE [st EXCEPT !.el[w].soundFont = value]
        was == IF name = "src" THEN st.el[w].src ELSE st.el[w].soundFont
    IN  IF value = NULL /\ was = NULL THEN st ELSE AttributeChanged(s1, w)

TimerRoom(st, w) ==
    InitPlayerSchedules(st, w) => st.el[w].timers < MaxTimers

\* element.setAttribute('src', v) / removeAttribute('src')
SetSrcAttr(w, v) ==
    /\ TimerRoom(World, w)
    /\ Do("SetSrcAttr", w, SetAttr(World, w, "src", v))

\* element.src = v
SetSrc(w, v) ==
    /\ TimerRoom(World, w)
    /\ Do("SetSrc", w,
          InitPlayer(SetAttr([World EXCEPT !.el[w].ns = NoDoc], w, "src", v),
                     w))

\* element.soundFont = v, or the attribute set directly
SetSoundFont(w, v) ==
    /\ TimerRoom(World, w)
    /\ Do("SetSoundFont", w, SetAttr(World, w, "sound-font", v))

\* element.noteSequence = value
SetNoteSequence(w, value) ==
    /\ el[w].ns # value
    /\ TimerRoom(World, w)
    /\ Do("SetNoteSequence", w,
          InitPlayer(SetAttr([World EXCEPT !.el[w].ns = value], w, "src", NULL),
                     w))

\* element.loop = b
SetLoop(w, b) ==
    /\ el[w].loop # b
    /\ Do("SetLoop", w, [World EXCEPT !.el[w].loop = b])

\* element.currentTime = t
CurrentTime(w, t) ==
    /\ w \in Widgets
    /\ DoWith("CurrentTime", w,
              IF IsPlayingThrows(World, w)
              THEN [World EXCEPT !.el[w].seekValue = Min(t, el[w].seekMax),
                                 !.el[w].timeLabel = Min(t, el[w].seekMax)]
              ELSE SetCurrentTime(World, w, t),
              t)

\* start()
Start(w) ==
    /\ w \in Widgets
    /\ Do("Start", w, StartImpl(World, w, FALSE))

\* stop()
StopCall(w) ==
    /\ w \in Widgets
    /\ Do("Stop", w, IF StopThrows(World, w) THEN World ELSE Stop(World, w))

----------------------------------------------------------------------------
(* Actions: DOM events of the controls *)

\* click on the play button
ClickPlay(w) ==
    /\ el[w].domInitialized
    /\ ~el[w].disabled
    /\ Do("ClickPlay", w,
          IF el[w].player = None \/ IsPlayingThrows(World, w)
          THEN World
          ELSE IF HasPlayingPlayer(World, w)
          THEN Stop(World, w)
          ELSE StartImpl(World, w, FALSE))

\* the user moves the seek bar to t: the `input` listener
SeekInput(w, t) ==
    /\ el[w].domInitialized
    /\ ~el[w].disabled
    /\ t <= el[w].seekMax
    /\ LET s1 == [World EXCEPT !.el[w].seekValue = t, !.el[w].seeking = TRUE]
       IN  Do("SeekInput", w,
              IF HasPlayingPlayer(s1, w) THEN SeqPause(s1, w) ELSE s1)

\* the user releases the seek bar: the `change` listener
SeekChange(w) ==
    /\ el[w].domInitialized
    /\ el[w].seeking
    /\ LET time == el[w].seekValue
           s0 == [World EXCEPT !.el[w].timeLabel = time]
           s1 == IF el[w].player = None
                 THEN s0
                 ELSE IF HasPlayingPlayer(s0, w)
                 THEN LET s2 == SeqSeek(s0, w, time)
                      IN  IF ~HasPlayingPlayer(s2, w)
                          THEN SeqPlay(s2, w) ELSE s2
                 ELSE s0
       IN  Do("SeekChange", w,
              IF IsPlayingThrows(s0, w)
              THEN s0
              ELSE [s1 EXCEPT !.el[w].seeking = FALSE])

\* the transport reports a note: noteCallback runs
TransportNote(w) ==
    /\ w \in Widgets
    /\ DoWith("NoteCallback", w, NoteCallback(World, w), 0)

----------------------------------------------------------------------------
(* Actions: the timer and the continuations of initPlayerNow *)

\* the zero-delay timer set by initPlayer
TimerFire(w, ok) ==
    /\ el[w].timers > 0
    /\ ok \in AudioOutcomes
    /\ LET s0 == [World EXCEPT !.audioOk = ok, !.el[w].timers = @ - 1]
       IN  /\ CanBegin(s0, w, el[w].needInitNs)
           /\ Do("TimerFire", w, InitPlayerNow(s0, w, el[w].needInitNs, TRUE))

\* the fetch of the MIDI file and `new MIDI` succeed
FetchMidiDone(w, k, ok) ==
    /\ run[w][k].pc = "fetchMidi"
    /\ ok \in AudioOutcomes
    /\ LET s0 == [World EXCEPT
                     !.audioOk = ok,
                     !.el[w].ns = [id |-> k, content |-> run[w][k].url]]
       IN  Do("FetchMidiDone", w, AfterDoc(s0, w, k, TRUE, TRUE))

\* the fetch of the MIDI file rejects, or `new MIDI` throws
FetchMidiFail(w, k, decode) ==
    /\ run[w][k].pc = "fetchMidi"
    /\ Do("FetchMidiFail", w,
          IF decode
          THEN Fail([World EXCEPT !.el[w].ns = NoDoc], w, k, "DecodeError")
          ELSE Fail(World, w, k, "FetchError"))

\* the fetch of the sound font succeeds
FetchSfDone(w, k, ok) ==
    /\ run[w][k].pc = "fetchSf"
    /\ ok \in AudioOutcomes
    /\ LET s0 == [World EXCEPT !.audioOk = ok,
                               !.el[w].soundfontBin = run[w][k].url]
       IN  Do("FetchSfDone", w, Construct(s0, w, k, TRUE))

\* the fetch of the sound font rejects
FetchSfFail(w, k) ==
    /\ run[w][k].pc = "fetchSf"
    /\ Do("FetchSfFail", w, Fail(World, w, k, "FetchError"))

\* `await this.player.initPlayer()` resumes; the run that started the
\* worklet module load resumes when audioWorklet.addModule has resolved
InitDone(w, k) ==
    /\ run[w][k].pc = "init"
    /\ LET s0 == IF run[w][k].worklet
                 THEN [World EXCEPT !.ctx = "ready", !.inst[w][k].synth = TRUE]
                 ELSE World
       IN  Do("InitDone", w, AfterInit(s0, w, k))

\* audioWorklet.addModule rejects
InitFail(w, k) ==
    /\ run[w][k].pc = "init"
    /\ run[w][k].worklet
    /\ Do("InitFail", w, Fail([World EXCEPT !.ctx = "failed"], w, k, "InitError"))

----------------------------------------------------------------------------
(* Specifications *)

\* the widget whose whole life Spec follows
Loader == CHOOSE w \in Widgets : \A v \in Widgets : w <= v

Init ==
    /\ el = [w \in Widgets |-> NewElement]
    /\ inst = [w \in Widgets |-> [k \in RunIds |-> NoInst]]
    /\ run = [w \in Widgets |-> [k \in RunSlots |-> NoRun]]
    /\ playingPlayer = None
    /\ context = "undefined"
    /\ emitted = <<>>
    /\ hist = [w \in Widgets |-> NewHist]
    /\ midi = NoMidi
    /\ noteTimes = <<>>

\* the life of one widget: configuration, loading, start and stop
Next ==
    \E w \in {Loader} :
        \/ Connect(w, TRUE)
        \/ Connect(w, FALSE)
        \/ Reload(w, TRUE)
        \/ Reload(w, FALSE)
        \/ \E v \in Srcs \cup {NULL} : SetSrcAttr(w, v)
        \/ \E v \in Srcs \cup {NULL} : SetSrc(w, v)
        \/ \E v \in SoundFonts : SetSoundFont(w, v)
        \/ \E d \in {NoDoc, PageDoc} : SetNoteSequence(w, d)
        \/ Start(w)
        \/ StopCall(w)
        \/ ClickPlay(w)
        \/ TimerFire(w, TRUE)
        \/ TimerFire(w, FALSE)
        \/ \E k \in RunIds :
            \/ FetchMidiDone(w, k, TRUE)
            \/ FetchMidiDone(w, k, FALSE)
            \/ FetchMidiFail(w, k, TRUE)
            \/ FetchMidiFail(w, k, FALSE)
            \/ FetchSfDone(w, k, TRUE)
            \/ FetchSfDone(w, k, FALSE)
            \/ FetchSfFail(w, k)
            \/ InitDone(w, k)
            \/ InitFail(w, k)

Spec == Init /\ [][Next]_vars

\* a widget after a first successful load of `src` with the default sound
\* font: connected, controls enabled, transport paused at 0
ReadyDoc(src) == [id |-> 1, content |-> src]

ReadyElement(src) ==
    [NewElement EXCEPT
        !.domInitialized = TRUE, !.src = src, !.soundFont = "",
        !.ns = ReadyDoc(src), !.seekMax = Duration(src),
        !.soundfontBin = DEFAULT_SOUNDFONT, !.player = 1,
        !.disabled = FALSE, !.classes = {"stopped"}, !.nLoads = 1]

ReadyInst(src) ==
    [buf |-> DEFAULT_SOUNDFONT, synth |-> TRUE,
     seq |-> [defined |-> TRUE, paused |-> TRUE, currentTime |-> 0,
              doc |-> ReadyDoc(src)]]

\* every widget of the page has loaded b.mid
InitPlay ==
    /\ el = [w \in Widgets |-> ReadyElement("b.mid")]
    /\ inst = [w \in Widgets |->
                  [k \in RunIds |-> IF k = 1 THEN ReadyInst("b.mid") ELSE NoInst]]
    /\ run = [w \in Widgets |-> [k \in RunSlots |-> NoRun]]
    /\ playingPlayer = None
    /\ context = "ready"
    /\ emitted = <<>>
    /\ hist = [w \in Widgets |-> NewHist]
    /\ midi = NoMidi
    /\ noteTimes = <<>>

\* playback of the loaded widgets: start, stop, the play button, the seek
\* bar and the loop flag
NextPlay ==
    \E w \in Widgets :
        \/ \E b \in BOOLEAN : SetLoop(w, b)
        \/ Start(w)
        \/ StopCall(w)
        \/ ClickPlay(w)
        \/ \E t \in Times : SeekInput(w, t)
        \/ SeekChange(w)
        \/ \E t \in Times : CurrentTime(w, t)

SpecPlay == InitPlay /\ [][NextPlay]_vars

\* playback with a backend that reports the notes of the transport to
\* noteCallback: the page and the user work on one widget, the other widgets
\* are started and stopped (which takes the playback away from it)
NextNote ==
    \/ \E w \in {Loader} :
           \/ \E b \in BOOLEAN : SetLoop(w, b)
           \/ ClickPlay(w)
           \/ \E t \in Times : SeekInput(w, t)
           \/ SeekChange(w)
           \/ \E t \in Times : CurrentTime(w, t)
           \/ TransportNote(w)
    \/ \E w \in Widgets :
           \/ Start(w)
           \/ StopCall(w)

SpecNote == InitPlay /\ [][NextNote]_vars

\* the loaded widgets hand the playback to each other: every widget is
\* started, stopped and set to loop; one of them is also played and sought
\* by the user and reloaded by the page
NextMutex ==
    \/ \E w \in Widgets :
           \/ \E b \in BOOLEAN : SetLoop(w, b)
           \/ Start(w)
           \/ StopCall(w)
    \/ \E w \in {Loader} :
           \/ ClickPlay(w)
           \/ SeekInput(w, 0)
           \/ SeekChange(w)
           \/ Reload(w, TRUE)
           \/ \E k \in RunIds : FetchMidiDone(w, k, TRUE)

SpecMutex == InitPlay /\ [][NextMutex]_vars

\* the widgets of a page are given a source and the default sound font and
\* are connected; every fetch and the worklet module load succeed
NextPage ==
    \E w \in Widgets :
        \/ SetSrcAttr(w, "b.mid")
        \/ SetSoundFont(w, "")
        \/ Connect(w, TRUE)
        \/ TimerFire(w, TRUE)
        \/ \E k \in RunIds :
            \/ FetchMidiDone(w, k, TRUE)
            \/ FetchSfDone(w, k, TRUE)
            \/ InitDone(w, k)

SpecPage == Init /\ [][NextPage]_vars

\* a connected widget with the default sound font and nothing to play: its
\* loads have ended in 'No content loaded'
IdleElement ==
    [NewElement EXCEPT
        !.domInitialized = TRUE, !.soundFont = "",
        !.classes = {"frozen", "error"}, !.title = "No content loaded"]

InitReconf ==
    /\ el = [w \in Widgets |-> IF w = Loader THEN IdleElement ELSE NewElement]
    /\ inst = [w \in Widgets |-> [k \in RunIds |-> NoInst]]
    /\ run = [w \in Widgets |-> [k \in RunSlots |-> NoRun]]
    /\ playingPlayer = None
    /\ context = "undefined"
    /\ emitted = <<>>
    /\ hist = [w \in Widgets |-> [NewHist EXCEPT !.log = TRUE]]
    /\ midi = NoMidi
    /\ noteTimes = <<>>

\* the page only sets src and noteSequence, and every fetch and the backend
\* initialisation succeed
NextReconf ==
    \E w \in {Loader} :
        \/ \E v \in Srcs : SetSrc(w, v)
        \/ SetNoteSequence(w, PageDoc)
        \/ TimerFire(w, TRUE)
        \/ \E k \in RunIds :
            \/ FetchMidiDone(w, k, TRUE)
            \/ FetchSfDone(w, k, TRUE)
            \/ InitDone(w, k)

SpecReconf == InitReconf /\ [][NextReconf]_vars

\* a sound font URL the page may name instead of the default
BankUrl == "bank.sf2"

\* one widget has loaded b.mid with the default sound font
InitFont ==
    /\ el = [w \in Widgets |->
                IF w = Loader THEN ReadyElement("b.mid") ELSE NewElement]
    /\ inst = [w \in Widgets |->
                  [k \in RunIds |->
                      IF w = Loader /\ k = 1 THEN ReadyInst("b.mid") ELSE NoInst]]
    /\ run = [w \in Widgets |-> [k \in RunSlots |-> NoRun]]
    /\ playingPlayer = None
    /\ context = "ready"
    /\ emitted = <<>>
    /\ hist = [w \in Widgets |-> NewHist]
    /\ midi = NoMidi
    /\ noteTimes = <<>>

\* the page changes the sound font and the source of the loaded widget, and
\* starts and stops it; every fetch succeeds
NextFont ==
    \E w \in {Loader} :
        \/ \E v \in {"", BankUrl} : SetSoundFont(w, v)
        \/ \E v \in Srcs : SetSrcAttr(w, v)
        \/ Reload(w, TRUE)
        \/ Start(w)
        \/ StopCall(w)
        \/ TimerFire(w, TRUE)
        \/ \E k \in RunIds : FetchMidiDone(w, k, TRUE)

SpecFont == InitFont /\ [][NextFont]_vars

\* the states from which SpecPlay and SpecReconf start are states of Spec
ReachReady ==
    ~(/\ el[Loader] = ReadyElement("b.mid")
      /\ inst[Loader][1] = ReadyInst("b.mid")
      /\ context = "ready" /\ playingPlayer = None)
ReachIdle ==
    ~(/\ el[Loader] = IdleElement
      /\ inst[Loader] = [k \in RunIds |-> NoInst]
      /\ context = "undefined" /\ playingPlayer = None)

----------------------------------------------------------------------------
(* SpessaSynthPlayer.getNoteTimes *)

\* Times are in microseconds, as exact integers; a velocity is the data
\* byte, in units of 1/127.

\* most events in the first track of a document
MaxEvents == 2
\* last tick of a document
MaxTick == 2
\* number of calls of getNoteTimes on the loaded document
MaxCalls == 2

Channels == 0 .. 15

\* const minNoteTime = 0.02
MinNoteTime == 20000

\* the length an interval has until it is closed
Placeholder == 0 - 1

\* 60000000 / 0 (Infinity), kept apart from every finite tempo
Infinity == 0 - 2

\* a MidiMessage; currentIndex is the read position of its messageData
Message(ticks, status, data) ==
    [ticks |-> ticks, messageStatusByte |-> status, messageData |-> data,
     currentIndex |-> 0]

\* the notes of the documents, as <<channel, pitch>>: one on channel 0 and
\* one on the percussion channel that are switched on and off, and a second
\* pitch on channel 0 that is only switched on
Keys == {<<0, 60>>, <<9, 60>>}
OpenKeys == Keys \cup {<<0, 61>>}

\* note-on (velocity 100) and note-off messages of these notes, a note-on
\* with velocity 0, and (below) a set-tempo meta message of 250000 us per
\* quarter note (bytes 03 D0 90)
NoteMessages(ticks) ==
    {Message(ticks, 144 + k[1], <<k[2], 100>>) : k \in OpenKeys}
        \cup {Message(ticks, 128 + k[1], <<k[2], 0>>) : k \in Keys}
        \cup {Message(ticks, 144, <<60, 0>>)}

TempoMessage(ticks) == Message(ticks, 81, <<3, 208, 144>>)

Messages == UNION {NoteMessages(t) \cup {TempoMessage(t)} : t \in 0 .. MaxTick}

\* the tracks a decoder can produce: ticks do not decrease within a track
TracksUpTo(n) ==
    {tr \in UNION {[1 .. l -> Messages] : l \in 0 .. n} :
        \A i \in 1 .. Len(tr) - 1 : tr[i].ticks <= tr[i + 1].ticks}

\* a second track: empty, or one message that changes the tempo or switches
\* off a note of the first track (a note-on with velocity 0)
SecondTracks ==
    {<<>>} \cup {<<m>> : m \in {TempoMessage(t) : t \in 0 .. MaxTick}
                              \cup {Message(t, 144, <<60, 0>>) :
                                       t \in 0 .. MaxTick}}

\* documents of two tracks, with 50 ticks per quarter note
Documents ==
    {[timeDivision |-> 50, tracks |-> <<t1, t2>>] :
        t1 \in TracksUpTo(MaxEvents), t2 \in SecondTracks}

\* the message a reference <<track, index>> denotes
Msg(doc, ref) == doc.tracks[ref[1]][ref[2]]

\* trackData.flat(): the references of all messages, track after track
RECURSIVE Flat(_, _)
Flat(doc, t) ==
    IF t > Len(doc.tracks) THEN <<>>
    ELSE [i \in 1 .. Len(doc.tracks[t]) |-> <<t, i>>] \o Flat(doc, t + 1)

\* events.sort((e1, e2) => e1.ticks - e2.ticks): a stable sort
RECURSIVE Insert(_, _, _)
Insert(doc, sorted, ref) ==
    IF sorted = <<>> THEN <<ref>>
    ELSE IF Msg(doc, sorted[Len(sorted)]).ticks <= Msg(doc, ref).ticks
    THEN Append(sorted, ref)
    ELSE Append(Insert(doc, SubSeq(sorted, 1, Len(sorted) - 1), ref),
                sorted[Len(sorted)])

RECURSIVE SortByTicks(_, _)
SortByTicks(doc, refs) ==
    IF refs = <<>> THEN <<>>
    ELSE Insert(doc, SortByTicks(doc, SubSeq(refs, 1, Len(refs) - 1)),
                refs[Len(refs)])

\* readBytesAsUintBigEndian(dataArray, bytesAmount), read from
\* dataArray.currentIndex on; a read past the end yields undefined, which
\* the shift turns into 0
RECURSIVE ReadBytesAsUintBigEndian(_, _, _)
ReadBytesAsUintBigEndian(data, index, bytesAmount) ==
    IF bytesAmount = 0 THEN 0
    ELSE LET byte == IF index + 1 <= Len(data) THEN data[index + 1] ELSE 0
             shift == IF bytesAmount = 3 THEN 65536
                      ELSE IF bytesAmount = 2 THEN 256 ELSE 1
         IN  byte * shift
                 + ReadBytesAsUintBigEndian(data, index + 1, bytesAmount - 1)

\* mutation of TempoReadIndex: the read goes on where the last one ended
TempoReadIndexKept(event) == event.currentIndex

\* the read position getTempo starts from: the fresh IndexedByteArray, with
\* currentIndex set to 0
TempoReadIndex(event) == 0

\* getTempo(event): the tempo in beats per minute
GetTempo(event) ==
    LET value == ReadBytesAsUintBigEndian(event.messageData,
                                          TempoReadIndex(event), 3)
    IN  IF value = 0 THEN Infinity ELSE 60000000 \div value

\* 60 / (tempo * timeDivision), in microseconds
OneTickToSeconds(tempo, timeDivision) ==
    IF tempo = Infinity THEN 0 ELSE 60000000 \div (tempo * timeDivision)

\* the state of one call: the locals of getNoteTimes and the document.
\* unfinishedNotes[c] holds the positions in noteTimes[c] of the open notes
NewWalk(doc) ==
    [midi |-> doc,
     noteTimes |-> [c \in Channels |-> <<>>],
     elapsedTime |-> 0,
     oneTickToSeconds |-> OneTickToSeconds(120, doc.timeDivision),
     unfinished |-> 0,
     unfinishedNotes |-> [c \in Channels |-> <<>>]]

\* mutation of NoteLength: no floor on the percussion channel
NoteLengthUnfloored(time, channel) == time

\* time < minNoteTime && channel === 9 ? minNoteTime : time
NoteLength(time, channel) ==
    IF time < MinNoteTime /\ channel = 9 THEN MinNoteTime ELSE time

\* sequence q without its i-th element: splice(i, 1)
Splice(q, i) == SubSeq(q, 1, i - 1) \o SubSeq(q, i + 1, Len(q))

\* noteOff(midiNote, channel)
NoteOff(s, midiNote, channel) ==
    LET open == s.unfinishedNotes[channel]
        found == {i \in 1 .. Len(open) :
                     s.noteTimes[channel][open[i]].midiNote = midiNote}
        s1 == IF found = {} THEN s
              ELSE LET noteIndex == CHOOSE i \in found :
                                        \A j \in found : i <= j
                       n == open[noteIndex]
                       time == s.elapsedTime - s.noteTimes[channel][n].start
                   IN  [s EXCEPT
                           !.noteTimes[channel][n].length =
                               NoteLength(time, channel),
                           !.unfinishedNotes[channel] = Splice(open, noteIndex)]
    IN  [s1 EXCEPT !.unfinished = @ - 1]

\* mutation of NoteOn: the open interval of the pitch is not closed first
NoteOnKeepsOpen(s, midiNote, velocity, channel) ==
    LET noteTime == [midiNote |-> midiNote, start |-> s.elapsedTime,
                     length |-> Placeholder, velocity |-> velocity]
        pushed == Append(s.noteTimes[channel], noteTime)
    IN  [s EXCEPT !.noteTimes[channel] = pushed,
                  !.unfinishedNotes[channel] = Append(@, Len(pushed)),
                  !.unfinished = @ + 1]

\* the note-on branch for a velocity above 0
NoteOn(s, midiNote, velocity, channel) ==
    LET s1 == NoteOff(s, midiNote, channel)
        noteTime == [midiNote |-> midiNote, start |-> s1.elapsedTime,
                     length |-> Placeholder, velocity |-> velocity]
        pushed == Append(s1.noteTimes[channel], noteTime)
    IN  [s1 EXCEPT !.noteTimes[channel] = pushed,
                   !.unfinishedNotes[channel] = Append(@, Len(pushed)),
                   !.unfinished = @ + 1]

\* the set-tempo branch; getTempo leaves the message with a fresh
\* messageData whose currentIndex is past the three bytes read
SetTempo(s, ref) ==
    LET event == Msg(s.midi, ref)
    IN  [s EXCEPT
            !.oneTickToSeconds =
                OneTickToSeconds(GetTempo(event), s.midi.timeDivision),
            !.midi.tracks[ref[1]][ref[2]].currentIndex =
                TempoReadIndex(event) + 3]

\* mutation of Handle: a note-on opens an interval whatever its velocity
HandleAnyVelocity(s, ref) ==
    LET event == Msg(s.midi, ref)
        status == event.messageStatusByte \div 16
        channel == event.messageStatusByte % 16
    IN  IF status = 8
        THEN NoteOff(s, event.messageData[1], channel)
        ELSE IF status = 9
        THEN NoteOn(s, event.messageData[1], event.messageData[2], channel)
        ELSE IF event.messageStatusByte = 81
        THEN SetTempo(s, ref)
        ELSE s

\* the body of the loop for one event, up to `++eventIndex`
Handle(s, ref) ==
    LET event == Msg(s.midi, ref)
        status == event.messageStatusByte \div 16
        channel == event.messageStatusByte % 16
    IN  IF status = 8
        THEN NoteOff(s, event.messageData[1], channel)
        ELSE IF status = 9
        THEN IF event.messageData[2] = 0
             THEN NoteOff(s, event.messageData[1], channel)
             ELSE NoteOn(s, event.messageData[1], event.messageData[2],
                         channel)
        ELSE IF event.messageStatusByte = 81
        THEN SetTempo(s, ref)
        ELSE s

\* elapsedTime += oneTickToSeconds * (events[eventIndex].ticks - event.ticks)
Advance(s, event, next) ==
    [s EXCEPT !.elapsedTime = @ + s.oneTickToSeconds * (next.ticks - event.ticks)]

\* the while loop, from eventIndex on (1-based)
RECURSIVE Walk(_, _, _)
Walk(s, events, eventIndex) ==
    IF eventIndex > Len(events) THEN s
    ELSE LET s1 == Handle(s, events[eventIndex])
         IN  IF eventIndex + 1 > Len(events) THEN s1
             ELSE Walk(Advance(s1, Msg(s1.midi, events[eventIndex]),
                               Msg(s1.midi, events[eventIndex + 1])),
                       events, eventIndex + 1)

\* the notes of a channel that are still in unfinishedNotes get their length
FinishChannel(s, channel) ==
    [n \in 1 .. Len(s.noteTimes[channel]) |->
        IF \E i \in 1 .. Len(s.unfinishedNotes[channel]) :
               s.unfinishedNotes[channel][i] = n
        THEN [s.noteTimes[channel][n] EXCEPT
                 !.length = NoteLength(s.elapsedTime - @.start, channel)]
        ELSE s.noteTimes[channel][n]]

\* finish the unfinished notes
Finish(s) ==
    IF s.unfinished > 0
    THEN [s EXCEPT !.noteTimes = [c \in Channels |-> FinishChannel(s, c)]]
    ELSE s

\* getNoteTimes() on a backend instance whose document is doc: the state
\* the call ends in (its noteTimes is returned, its midi is the document
\* as the call leaves it)
GetNoteTimes(doc) ==
    Finish(Walk(NewWalk(doc), SortByTicks(doc, Flat(doc, 1)), 1))

\* a call of getNoteTimes
GetNoteTimesCall ==
    /\ Len(noteTimes) < MaxCalls
    /\ LET s == GetNoteTimes(midi)
       IN  /\ noteTimes' = Append(noteTimes, s.noteTimes)
           /\ midi' = s.midi
    /\ UNCHANGED <<el, inst, run, playingPlayer, context, emitted, hist>>

\* a backend instance with a decoded document loaded
InitNotes ==
    /\ el = [w \in Widgets |-> NewElement]
    /\ inst = [w \in Widgets |-> [k \in RunIds |-> NoInst]]
    /\ run = [w \in Widgets |-> [k \in RunSlots |-> NoRun]]
    /\ playingPlayer = None
    /\ context = "undefined"
    /\ emitted = <<>>
    /\ hist = [w \in Widgets |-> NewHist]
    /\ midi \in Documents
    /\ noteTimes = <<>>

NextNotes == GetNoteTimesCall

SpecNotes == InitNotes /\ [][NextNotes]_vars

----------------------------------------------------------------------------
(* Claims *)

\* the program state a step leaves
After ==
    [el |-> el', inst |-> inst', run |-> run', pp |-> playingPlayer',
     ctx |-> context', ev |-> emitted', audioOk |-> TRUE]

\* widget w dispatched an event of this type in the last turn
Dispatched(events, w, type) ==
    \E i \in 1 .. Len(events) : events[i].w = w /\ events[i].type = type

StopEv(w, finished) == [Ev(w, "stop") EXCEPT !.finished = finished]

\* widget w's transport is at position t
TransportAt(st, w, t) ==
    /\ st.el[w].player # None
    /\ Player(st, w).seq.defined
    /\ Player(st, w).seq.currentTime = t

\* C1: when widget b dispatches `start` in a turn that began with the
\* transport of another widget a playing, that turn leaves a's transport
\* paused and a has dispatched stop{finished: false} before b's `start`,
\* whatever a's loop flag is.
C1_StopsOtherFirst ==
    [][\A a, b \in Widgets :
          (a # b /\ HasPlayingPlayer(World, a)
                 /\ Dispatched(emitted', b, "start"))
          => /\ ~HasPlayingPlayer(After, a)
             /\ \E i, j \in 1 .. Len(emitted') :
                    /\ i < j
                    /\ emitted'[i] = StopEv(a, FALSE)
                    /\ emitted'[j] = Ev(b, "start")]_vars

\* C2: at most one widget's backend transport is playing.
C2_OneTransportPlaying ==
    Cardinality({w \in Widgets : HasPlayingPlayer(World, w)}) <= 1

\* C5: with the loop flag set, the turn in which handleStop(true) runs (the
\* turn in which the widget dispatches `start` or `loop`: _start ends with
\* handleStop(true)) dispatches stop{finished: true} and right after it
\* `loop`, with no `start` after them, and leaves the position at 0 and the
\* transport playing.
C5_LoopRestarts ==
    [][\A w \in Widgets :
          (el[w].loop /\ (Dispatched(emitted', w, "start")
                              \/ Dispatched(emitted', w, "loop")))
          => /\ \E i \in 1 .. Len(emitted') - 1 :
                    /\ emitted'[i] = StopEv(w, TRUE)
                    /\ emitted'[i + 1] = Ev(w, "loop")
                    /\ \A j \in i .. Len(emitted') :
                           emitted'[j] # Ev(w, "start")
             /\ el'[w].seekValue = 0
             /\ HasPlayingPlayer(After, w)]_vars

\* C6: when the seek bar is released (the `change` listener ends the drag)
\* after a drag that began while the transport was playing, the transport is
\* at the released position and is playing again.
C6_SeekResumes ==
    [][\A w \in Widgets :
          (hist[w].dragFromPlaying /\ el[w].seeking /\ ~el'[w].seeking)
          => /\ TransportAt(After, w, el[w].seekValue)
             /\ HasPlayingPlayer(After, w)]_vars

\* C7: whenever a widget's transport is playing and no seek drag is in
\* progress, `playing` is true; and the turn in which a widget with the loop
\* flag unset dispatches `start` leaves `playing` true and dispatches no
\* `stop` of that widget.
C7_PlayingWhileTransportPlays ==
    [][\A w \in Widgets :
          /\ (HasPlayingPlayer(After, w) /\ ~el'[w].seeking) => el'[w].playing
          /\ (~el[w].loop /\ Dispatched(emitted', w, "start"))
             => (el'[w].playing /\ ~Dispatched(emitted', w, "stop"))]_vars

\* no timer of w is pending and none of its loads is in flight
Settled(w) == el[w].timers = 0 /\ InFlight(w) = {}

\* C3: when a source was requested while the load of the source requested
\* before it was in flight, then once the loads have settled exactly one
\* `load` event has been dispatched since that request, and the document
\* published at it was fetched from the source requested last.
C3_OneLoadOfSecondSource ==
    \A w \in Widgets :
        (hist[w].rapid /\ hist[w].requested \in Srcs /\ Settled(w))
        => hist[w].loadLog = <<hist[w].requested>>

\* C4: once the loads have settled, what the widget publishes (noteSequence,
\* the duration in the seek bar, the document wired into the backend)
\* belongs to the source or note sequence requested last.
C4_PublishesLastRequested ==
    \A w \in Widgets :
        (hist[w].requested # NULL /\ Settled(w))
        => /\ el[w].ns # NoDoc => el[w].ns.content = hist[w].requested
           /\ el[w].seekMax # 0
                  => el[w].seekMax = Duration(hist[w].requested)
           /\ (el[w].player # None /\ Player(World, w).seq.defined
                   /\ Player(World, w).seq.doc # NoDoc)
                  => Player(World, w).seq.doc.content = hist[w].requested

\* the sound font URL a run fetches for a sound-font attribute value
FontUrl(sf) == IF sf = "" THEN DEFAULT_SOUNDFONT ELSE sf

\* C8: on a connected widget, after reload-requiring changes made in a tick
\* in which nothing else called initPlayerNow, exactly one timer is pending
\* (so exactly one run follows); and the run a timer starts reads the src
\* and sound-font values as they are when the timer fires.
C8_OneRunLastValues ==
    [][\A w \in Widgets :
          /\ (el'[w].domInitialized /\ el'[w].needInitNs /\ ~hist'[w].dirty)
             => el'[w].timers = 1
          /\ el'[w].timers < el[w].timers
             => \A k \in RunIds :
                    /\ (run[w][k].pc = "none" /\ run'[w][k].pc = "fetchMidi")
                       => run'[w][k].url = el[w].src
                    /\ (run[w][k].pc = "none" /\ run'[w][k].pc = "fetchSf")
                       => run'[w][k].url = FontUrl(el[w].soundFont)]_vars

Ready(w) ==
    /\ ~el[w].disabled
    /\ el[w].classes \cap {"loading", "error"} = {}

ErrorState(w) ==
    /\ el[w].disabled
    /\ "error" \in el[w].classes
    /\ el[w].title # NULL

\* C9: once the loads of a connected widget have settled, the widget is
\* ready or in the error state; and it is in the error state if the
\* sound-font attribute is absent.
C9_LoadEndsReadyOrError ==
    \A w \in Widgets :
        (el[w].domInitialized /\ Settled(w))
        => /\ Ready(w) \/ ErrorState(w)
           /\ el[w].soundFont = NULL => ErrorState(w)

\* the transports of widget w's backend instances that are playing
PlayingInstances(w) ==
    {k \in RunIds : inst[w][k].seq.defined /\ ~inst[w][k].seq.paused}

\* C10: when a load constructs a new backend instance for a widget, the
\* transport of the instance it replaces is not playing; and a widget never
\* has two backend instances with a playing transport.
C10_OldInstanceStopped ==
    [][\A w \in Widgets :
          /\ (el'[w].player # el[w].player /\ el[w].player # None)
             => ~HasPlayingPlayer(World, w)
          /\ Cardinality({k \in RunIds :
                 inst'[w][k].seq.defined /\ ~inst'[w][k].seq.paused}) <= 1]_vars

\* a document is loaded into widget w's backend instance
Loaded(st, w) ==
    /\ st.el[w].player # None
    /\ Player(st, w).seq.defined

\* C11: once a document is loaded, the turn that assigns t to currentTime
\* leaves the backend transport at t, whether the transport was playing or
\* paused, and leaves it playing exactly if it was playing.
C11_CurrentTimeSeeksBackend ==
    [][\A w \in Widgets :
          (hist'[w].call.op = "CurrentTime" /\ Loaded(World, w))
          => /\ TransportAt(After, w, hist'[w].call.arg)
             /\ HasPlayingPlayer(After, w) <=> HasPlayingPlayer(World, w)]_vars

\* the event stream of the loaded document, in the order it is processed
Stream == SortByTicks(midi, Flat(midi, 1))

\* the message at position i of the stream ev
EventAt(ev, i) == Msg(midi, ev[i])

IsNoteOn(m) == m.messageStatusByte \div 16 = 9 /\ m.messageData[2] > 0

IsNoteEnd(m) ==
    \/ m.messageStatusByte \div 16 = 8
    \/ m.messageStatusByte \div 16 = 9 /\ m.messageData[2] = 0

\* channel and pitch of a note message
NoteKey(m) == <<m.messageStatusByte % 16, m.messageData[1]>>

\* the positions in the stream of the note-ons (velocity > 0) of channel c
NoteOns(ev, c) ==
    SelectSeq([i \in 1 .. Len(ev) |-> i],
              LAMBDA i : IsNoteOn(EventAt(ev, i))
                             /\ NoteKey(EventAt(ev, i))[1] = c)

\* the first note message after position i with the pitch and channel of
\* the message at i (0: there is none)
NextOfKey(ev, i) ==
    LET later == {j \in i + 1 .. Len(ev) :
                     /\ IsNoteOn(EventAt(ev, j)) \/ IsNoteEnd(EventAt(ev, j))
                     /\ NoteKey(EventAt(ev, j)) = NoteKey(EventAt(ev, i))}
    IN  IF later = {} THEN 0 ELSE CHOOSE j \in later : \A k \in later : j <= k

\* microseconds per tick during the step from position j to j + 1: set by
\* the last set-tempo message at or before j, 120 beats per minute if none
StepFactor(ev, j) ==
    LET tempos == {k \in 1 .. j : EventAt(ev, k).messageStatusByte = 81}
    IN  IF tempos = {} THEN 500000 \div midi.timeDivision
        ELSE LET k == CHOOSE k \in tempos : \A l \in tempos : l <= k
                 d == EventAt(ev, k).messageData
             IN  (d[1] * 65536 + d[2] * 256 + d[3]) \div midi.timeDivision

\* the time of tick T: the steps that end at or before T, each at its factor
RECURSIVE TimeUpTo(_, _, _)
TimeUpTo(ev, T, j) ==
    IF j <= 0 THEN 0
    ELSE TimeUpTo(ev, T, j - 1)
             + (IF EventAt(ev, j + 1).ticks <= T
                THEN (EventAt(ev, j + 1).ticks - EventAt(ev, j).ticks)
                         * StepFactor(ev, j)
                ELSE 0)

TimeOfTick(ev, T) == TimeUpTo(ev, T, Len(ev) - 1)

\* the intervals returned by the calls made so far: call, channel, position
Returned ==
    {<<i, c, n>> \in (1 .. Len(noteTimes)) \X Channels \X (1 .. MaxEvents + 1) :
        n <= Len(noteTimes[i][c])}

Interval(r) == noteTimes[r[1]][r[2]][r[3]]

\* the position in the stream of the note-on that opened a returned interval
OpenedAt(ev, r) == NoteOns(ev, r[2])[r[3]]

\* the position that ends a returned interval: the next note message of its
\* pitch and channel, the end of the stream if there is none
ClosedAt(ev, r) ==
    LET next == NextOfKey(ev, OpenedAt(ev, r))
    IN  IF next = 0 THEN Len(ev) ELSE next

\* C12: every interval getNoteTimes returns has a resolved length; an
\* interval whose note-on has no later note-off (or velocity-0 note-on) of
\* its pitch and channel has length = final elapsed time - start (at least
\* 0.02 s on channel 9).  No interval keeps the placeholder -1.
C12_OpenIntervalsClosedAtEnd ==
    LET ev == Stream
    IN  \A r \in Returned :
            /\ Interval(r).length # Placeholder
            /\ NextOfKey(ev, OpenedAt(ev, r)) = 0
               => LET time == TimeOfTick(ev, EventAt(ev, Len(ev)).ticks)
                                  - Interval(r).start
                  IN  Interval(r).length =
                          IF time < MinNoteTime /\ r[2] = 9
                          THEN MinNoteTime ELSE time

\* every note-on (velocity > 0) has a later note-off or velocity-0 note-on
\* of its pitch and channel, and every tempo is positive
WellFormed(ev) ==
    /\ \A i \in 1 .. Len(ev) :
           IsNoteOn(EventAt(ev, i))
           => \E j \in i + 1 .. Len(ev) :
                  /\ IsNoteEnd(EventAt(ev, j))
                  /\ NoteKey(EventAt(ev, j)) = NoteKey(EventAt(ev, i))
    /\ \A i \in 1 .. Len(ev) :
           EventAt(ev, i).messageStatusByte = 81
           => \E b \in 1 .. 3 : EventAt(ev, i).messageData[b] > 0

\* C13 as claimed: for a well-formed document every returned interval has
\* start >= 0 and length > 0, and length >= 0.02 s on channel 9.
C13_PositiveLengths ==
    (noteTimes # <<>> /\ WellFormed(Stream))
    => \A r \in Returned :
           /\ Interval(r).start >= 0
           /\ Interval(r).length > 0
           /\ r[2] = 9 => Interval(r).length >= MinNoteTime

\* C13, amended: for a well-formed document every returned interval has
\* start >= 0 and length >= 0, its length is 0 only if it is closed at the
\* tick of its note-on, and length >= 0.02 s on channel 9.
C13_NonNegativeLengths ==
    LET ev == Stream
    IN  (noteTimes # <<>> /\ WellFormed(ev))
        => \A r \in Returned :
               /\ Interval(r).start >= 0
               /\ Interval(r).length >= 0
               /\ Interval(r).length = 0
                  => EventAt(ev, NextOfKey(ev, OpenedAt(ev, r))).ticks
                         = EventAt(ev, OpenedAt(ev, r)).ticks
               /\ r[2] = 9 => Interval(r).length >= MinNoteTime

\* a well-formed document was extracted: a percussion note that starts
\* after time 0 and is closed one tick later has the floor length
C13_Witness ==
    LET ev == Stream
    IN  /\ WellFormed(ev)
        /\ \E r \in Returned :
               /\ r[2] = 9
               /\ Interval(r).start > 0
               /\ Interval(r).length = MinNoteTime
               /\ EventAt(ev, NextOfKey(ev, OpenedAt(ev, r))).ticks
                      = EventAt(ev, OpenedAt(ev, r)).ticks + 1

\* the note-ons of channel c that are re-triggered: the next note message
\* of their pitch and channel is another note-on
ReTriggered(ev, c) ==
    SelectSeq(NoteOns(ev, c),
              LAMBDA i : /\ NextOfKey(ev, i) # 0
                         /\ IsNoteOn(EventAt(ev, NextOfKey(ev, i))))

\* C14 as claimed: the number of intervals returned for a channel is the
\* number of its note-ons with velocity > 0 minus the number of those that
\* were re-triggered.
C14_CountWithoutReTriggered ==
    noteTimes # <<>>
    => LET ev == Stream
       IN  \A c \in Channels :
               LET count == Len(NoteOns(ev, c)) - Len(ReTriggered(ev, c))
               IN  \A i \in 1 .. Len(noteTimes) : Len(noteTimes[i][c]) = count

\* C14, amended: the number of intervals returned for a channel is the
\* number of its note-ons with velocity > 0, in their order; a re-triggered
\* note-on keeps its interval, closed at the re-trigger.
C14_CountOfNoteOns ==
    noteTimes # <<>>
    => LET ev == Stream
       IN  \A c \in Channels :
               LET ons == NoteOns(ev, c)
               IN  \A i \in 1 .. Len(noteTimes) :
                       /\ Len(noteTimes[i][c]) = Len(ons)
                       /\ \A n \in 1 .. Len(ons) :
                              noteTimes[i][c][n].midiNote
                                  = EventAt(ev, ons[n]).messageData[1]

\* a document with a re-triggered note and a velocity-0 note-on was extracted
C14_Witness ==
    LET ev == Stream
    IN  /\ noteTimes # <<>>
        /\ \E c \in Channels :
               /\ Len(ReTriggered(ev, c)) > 0
               /\ Len(noteTimes[1][c]) = 2
        /\ \E i \in 1 .. Len(ev) :
               /\ EventAt(ev, i).messageStatusByte \div 16 = 9
               /\ IsNoteEnd(EventAt(ev, i))

\* C15: the start of every interval is the sum, over the steps up to its
\* note-on, of tick delta x the factor set by the last tempo message at or
\* before the step's first event (120 BPM if none), and its length is that
\* sum over the steps it spans (at least 0.02 s on channel 9); the time of a
\* message depends on its tick only, not on whether it precedes or follows a
\* tempo message of the same tick.
C15_TempoFromItsTickOn ==
    LET ev == Stream
    IN  \A r \in Returned :
            LET start == TimeOfTick(ev, EventAt(ev, OpenedAt(ev, r)).ticks)
                time == TimeOfTick(ev, EventAt(ev, ClosedAt(ev, r)).ticks)
                            - start
            IN  /\ Interval(r).start = start
                /\ Interval(r).length =
                       IF time < MinNoteTime /\ r[2] = 9
                       THEN MinNoteTime ELSE time

\* C16: a second call of getNoteTimes on the loaded document returns the
\* interval lists the first call returned.
C16_SecondCallSameResult ==
    \A i, j \in 1 .. Len(noteTimes) : noteTimes[i] = noteTimes[j]

\* two calls were made on a document whose tempo message the first call
\* read, and whose tempo decides the length of a note
C16_Witness ==
    LET ev == Stream
    IN  /\ Len(noteTimes) = 2
        /\ \E i \in 1 .. Len(ev) :
               /\ EventAt(ev, i).messageStatusByte = 81
               /\ EventAt(ev, i).currentIndex = 3
        /\ \E r \in Returned : Interval(r).length = 5000

\* the turn ends widget w's load in a failure of the backend initialisation
InitFailed(w) == el'[w].title = "InitError" /\ el[w].title # "InitError"

\* C17: a load whose backend initialisation fails (new AudioContext throws,
\* or the worklet module load rejects) ends in the error state; a later
\* load that constructs a backend instance after a failed worklet module
\* load starts the module load again; and the load attempt that follows a
\* failed initialisation is not failed by what that initialisation left
\* behind (the TypeError of a backend instance without sequencer).
C17_InitFailureRecoverable ==
    [][\A w \in Widgets :
          /\ InitFailed(w) => ErrorState(w)'
          /\ (context = "failed" /\ el'[w].player # el[w].player)
             => context' = "loading"
          /\ el[w].title = "InitError" => el'[w].title # "TypeError"]_vars

\* what the widget shows of its load state
Visual(e) == [disabled |-> e.disabled, classes |-> e.classes, title |-> e.title]

\* the turn continues run k of widget w, which began before the widget's
\* newest run
ContinuesSuperseded(w, k) ==
    /\ run[w][k].pc # "none"
    /\ run'[w][k] # run[w][k]
    /\ k < el[w].nLoads

\* C18: the continuation of a load that a newer load has superseded leaves
\* the widget's visual state (disabled controls, loading and error marks,
\* error text) as it was, whether that continuation succeeds or fails.
C18_StaleLoadKeepsVisualState ==
    [][\A w \in Widgets : \A k \in RunIds :
          ContinuesSuperseded(w, k) => Visual(el'[w]) = Visual(el[w])]_vars

\* C19: when a load completes (dispatches `load`) and the sound-font
\* attribute has not changed since that load began, the backend instance in
\* use was constructed from the bank of the attribute's current value.
C19_BankOfCurrentSoundFont ==
    [][\A w \in Widgets :
          (/\ Dispatched(emitted', w, "load")
           /\ ~el'[w].needInitNs
           /\ el'[w].timers = 0)
          => Player(After, w).buf = FontUrl(el'[w].soundFont)]_vars

\* what the widget displays of the position
Displayed(e) == <<e.seekValue, e.timeLabel>>

\* C20: a call of noteCallback while `seeking` is set leaves the seek bar
\* value and the current-time label as they are; it dispatches `note` when
\* the widget is playing; when the widget is not playing it dispatches
\* nothing and changes nothing.
C20_NoteCallbackDuringSeek ==
    [][\A w \in Widgets :
          hist'[w].call.op = "NoteCallback"
          => /\ el[w].seeking => Displayed(el'[w]) = Displayed(el[w])
             /\ el[w].playing => emitted' = <<Ev(w, "note")>>
             /\ ~el[w].playing
                => /\ emitted' = <<>>
                   /\ <<el', inst', run', playingPlayer', context'>>
                          = <<el, inst, run, playingPlayer, context>>]_vars

\* noteCallback has run on a playing widget in the middle of a seek drag
\* that moved the seek bar away from the transport's position
C20_Witness ==
    \E w \in Widgets :
        /\ hist[w].call.op = "NoteCallback"
        /\ el[w].seeking
        /\ el[w].playing
        /\ emitted = <<Ev(w, "note")>>
        /\ el[w].seekValue # Player(World, w).seq.currentTime


\* C21: at most one widget has `playing` true, and a widget that has it is
\* the one playingPlayer refers to; and in a turn in which a widget with the
\* loop flag set dispatches `start` or `loop` (the turn of its
\* handleStop(true) -> _start(true)), no stop{finished: false} of that widget
\* follows: the restart does not call stop() on the widget itself.
C21_OnePlayingHoldsToken ==
    /\ [](/\ Cardinality({w \in Widgets : el[w].playing}) <= 1
          /\ \A w \in Widgets : el[w].playing => playingPlayer = w)
    /\ [][\A w \in Widgets :
             el[w].loop
             => \A i, j \in 1 .. Len(emitted') :
                    (/\ i < j
                     /\ emitted'[i].w = w
                     /\ emitted'[i].type \in {"start", "loop"})
                    => emitted'[j] # StopEv(w, FALSE)]_vars

\* a looping widget has taken the playback from another widget that was
\* playing: the other one was stopped in the turn of this one's `start`
C21_Witness ==
    \E v, w \in Widgets :
        /\ v # w
        /\ el[w].loop
        /\ el[w].playing
        /\ playingPlayer = w
        /\ ~el[v].playing
        /\ emitted = <<StopEv(v, FALSE), Ev(w, "start")>>


\* the events of widget w that start or end a playback, among `events`
Playback(events, w) ==
    SelectSeq(events,
              LAMBDA e : e.w = w /\ e.type \in {"start", "loop", "stop"})

\* C22: the playback event of a widget that comes before a `stop` of it is
\* a `start` or a `loop`, never another `stop` and never nothing (within
\* the turn, or else in the turns before it), and the one that comes before
\* a `start` or a `loop` of it is a `stop`, or there is none; and a turn that
\* begins with `playing` false and in which the widget dispatches no `start`
\* and no `loop` (stop(), a reload) dispatches no `stop` of it.
C22_StopFollowsStart ==
    [][\A w \in Widgets :
          LET mine == Playback(emitted', w)
          IN  /\ \A j \in 1 .. Len(mine) :
                     (mine[j].type = "stop")
                         = (IF j = 1 THEN hist[w].started
                            ELSE mine[j - 1].type # "stop")
              /\ (~el[w].playing
                      /\ \A j \in 1 .. Len(mine) : mine[j].type = "stop")
                 => mine = <<>>]_vars

\* a widget that was started in an earlier turn, and still playing, has
\* been stopped by a turn that dispatched nothing else
C22_Witness ==
    \E w \in Widgets :
        /\ emitted = <<StopEv(w, FALSE)>>
        /\ ~el[w].playing
        /\ ~hist[w].started


\* the states of the while loop of getNoteTimes after each of its events,
\* from eventIndex on
RECURSIVE WalkPoints(_, _, _)
WalkPoints(s, events, eventIndex) ==
    IF eventIndex > Len(events) THEN <<>>
    ELSE LET s1 == Handle(s, events[eventIndex])
         IN  IF eventIndex + 1 > Len(events) THEN <<s1>>
             ELSE <<s1>> \o
                  WalkPoints(Advance(s1, Msg(s1.midi, events[eventIndex]),
                                     Msg(s1.midi, events[eventIndex + 1])),
                             events, eventIndex + 1)

\* the positions in unfinishedNotes[channel] of the open intervals of a pitch
OpenOf(s, channel, midiNote) ==
    {i \in 1 .. Len(s.unfinishedNotes[channel]) :
        s.noteTimes[channel][s.unfinishedNotes[channel][i]].midiNote
            = midiNote}

\* C23: after every event of a getNoteTimes pass, each channel's
\* unfinishedNotes holds at most one open interval of a pitch, so that the
\* first match and the last match of a pitch are the same interval.
C23_OneOpenIntervalPerPitch ==
    LET points == WalkPoints(NewWalk(midi), Stream, 1)
    IN  \A p \in 1 .. Len(points) :
            \A k \in OpenKeys :
                LET found == OpenOf(points[p], k[1], k[2])
                IN  /\ Cardinality(found) <= 1
                    /\ \A first, last \in found :
                           ((\A i \in found : first <= i)
                               /\ (\A i \in found : i <= last))
                           => first = last

\* getNoteTimes has walked a document in which a pitch is switched on twice
\* in a row: after the second note-on the channel has two intervals of the
\* pitch, one of them open
C23_Witness ==
    LET points == WalkPoints(NewWalk(midi), Stream, 1)
    IN  /\ Len(noteTimes) > 0
        /\ \E p \in 1 .. Len(points) :
            \E k \in OpenKeys :
                LET s == points[p]
                IN  /\ Len(s.noteTimes[k[1]]) = 2
                    /\ \A n \in 1 .. 2 : s.noteTimes[k[1]][n].midiNote = k[2]
                    /\ s.unfinishedNotes[k[1]] = <<2>>


\* C24: a backend instance has a Synthetizer only when the worklet module
\* load on the shared AudioContext has completed.
C24_SynthetizerAfterWorklet ==
    \A w \in Widgets :
        \A k \in RunIds :
            inst[w][k].synth => context = "ready"

====
